---- MODULE Spec2Model ----
(***************************************************************************)
(* The buffer manager of BadgerDB (BufMgr/src/buffer.cpp): a pool of       *)
(* numBufs frames, one BufDesc per frame, a hash index from (file, pageNo) *)
(* to frame number and a clock hand.  Every public method of BufMgr is one *)
(* action; allocBuf, which only readPage and allocPage call, is computed   *)
(* step by step by the operator AllocLoop inside those actions.            *)
(*                                                                         *)
(* The statistics counters (bufStats) are left out: nothing reads them.    *)
(* A Page is opaque to the buffer manager except for its page number, so   *)
(* bufPool holds, per slot, the number of the page the slot contains.      *)
(***************************************************************************)
EXTENDS Integers, Sequences, FiniteSets, TLC

\* ------------------------------------------------------------------ bounds
\* Number of frames of the pool (the constructor's argument).
NumBufs == 2
\* Pins one frame may hold at once (readPage on a hit is not offered beyond).
MaxPinCnt == 2
\* Page numbers the larger file may use: 1..MaxPageNo.
MaxPageNo == 2

\* ------------------------------------------------------------ value spaces
Files == {"fA", "fB"}
\* BufDesc::file of a cleared frame.
NoFile == "NULL"
\* BufDesc::pageNo of a cleared frame, and the number of an unused Page.
NoPage == 0
\* page = NULL, as readPage leaves it when the pool is exhausted.
NullPage == -1
PageIds == 1..MaxPageNo
Frames == 0..(NumBufs - 1)
\* The pages a file may ever hold: fA grows to MaxPageNo pages, fB is a
\* one-page file.
PagesOf(file) == IF file = "fA" THEN PageIds ELSE {1}
Keys == {k \in Files \X PageIds : k[2] \in PagesOf(k[1])}

VARIABLES
    bufDescTable,   \* [Frames -> BufDesc]
    bufPool,        \* [Frames -> page number held in the slot]
    hashTable,      \* set of [file, pageNo, frameNo]
    clockHand,      \* frame number
    allocated,      \* the page store: the (file, pageNo) that exist
    last,           \* the last call of a public method and how it ended
    sweep,          \* what allocBuf did during the last call
    events          \* page-store and index calls of the last call, in order

vars == <<bufDescTable, bufPool, hashTable, clockHand, allocated, last, sweep, events>>

\* ------------------------------------------------------------------ BufDesc
\* BufDesc::Clear(): the free state.
Clear ==
    [valid |-> FALSE, refbit |-> FALSE, dirty |-> FALSE, pinCnt |-> 0,
     file |-> NoFile, pageNo |-> NoPage]

\* BufDesc::Set(file, pageNo): the frame now holds the page, pinned once.
Set(file, pageNo) ==
    [valid |-> TRUE, refbit |-> TRUE, dirty |-> FALSE, pinCnt |-> 1,
     file |-> file, pageNo |-> pageNo]

\* --------------------------------------------------------------- BufHashTbl
HashEntries(ht, file, pageNo) == {e \in ht : e.file = file /\ e.pageNo = pageNo}

\* lookup succeeds (it throws HashNotFoundException otherwise).
HashFound(ht, file, pageNo) == HashEntries(ht, file, pageNo) # {}

\* The frame number lookup returns.
HashLookup(ht, file, pageNo) == (CHOOSE e \in HashEntries(ht, file, pageNo) : TRUE).frameNo

\* insert (it throws HashAlreadyPresentException when the key is present).
HashInsert(ht, file, pageNo, frameNo) ==
    ht \cup {[file |-> file, pageNo |-> pageNo, frameNo |-> frameNo]}

\* remove (it throws HashNotFoundException when the key is absent).
HashRemove(ht, file, pageNo) == ht \ HashEntries(ht, file, pageNo)

\* ------------------------------------------------------------------- events
Ev(kind, file, pageNo, frameNo) ==
    [kind |-> kind, file |-> file, pageNo |-> pageNo, frameNo |-> frameNo]

\* ------------------------------------------------------------ advanceClock
\* The hand left where it is.
advanceClock_Stuck(hand) == hand

\* Lines 68-71.
advanceClock(hand) == (hand + 1) % NumBufs

\* ---------------------------------------------------------------- allocBuf
\* The second chance left out: a referenced frame is treated as unreferenced.
HasRefbit_Ignored(d) == FALSE

\* Line 89: the frame is given its second chance.
HasRefbit(d) == d.refbit = TRUE

\* The pin check left out: a pinned frame is taken like any other.
IsPinned_Ignored(d) == FALSE

\* Line 96: the frame is pinned and is skipped.
IsPinned(d) == d.pinCnt # 0

\* The write-back left out: a dirty victim is dropped.
NeedsWrite_Never(d) == FALSE

\* Line 103: the victim is written back before it is cleared.
NeedsWrite(d) == d.dirty = TRUE

\* Exhaustion declared as soon as one pinned frame was met.
AllPinned_Any(totalPinnedPages) == totalPinnedPages > 0

\* Exhaustion never declared: the sweep is retried for ever.
AllPinned_Never(totalPinnedPages) == FALSE

\* Line 117: after a full lap, the pool is exhausted.
AllPinned(totalPinnedPages) == totalPinnedPages = NumBufs

\* The loop is cut after this many inspections (it needs at most 2 * NumBufs).
SweepFuel == 3 * NumBufs + 1

\* The victim cleared but left in the index.
Evict_KeepEntry(st) ==
    LET c == st.currClockHand
        d == st.tbl[c]
    IN  [st EXCEPT
            !.tbl[c] = Clear,
            !.events = st.events \o <<Ev("clear", d.file, d.pageNo, c)>>]

\* Lines 103-111: the chosen frame, when valid, is written if dirty, cleared
\* and taken out of the index.
Evict(st) ==
    LET c == st.currClockHand
        d == st.tbl[c]
        wr == IF NeedsWrite(d)
              THEN <<Ev("write", d.file, st.pool[c], c)>>
              ELSE <<>>
    IN  [st EXCEPT
            !.tbl[c] = Clear,
            !.missing = ~HashFound(st.ht, d.file, d.pageNo),
            !.ht = HashRemove(st.ht, d.file, d.pageNo),
            !.events = st.events \o wr
                       \o <<Ev("clear", d.file, d.pageNo, c),
                            Ev("remove", d.file, d.pageNo, c)>>]

\* Lines 87-125: the while loop and the check after it, from start_again.
RECURSIVE AllocLoop(_)
AllocLoop(st) ==
    IF st.inspections >= SweepFuel THEN [st EXCEPT !.outcome = "diverged"]
    ELSE IF st.counter # NumBufs THEN
        LET c == st.currClockHand
            d == st.tbl[c]
            next == advanceClock(st.clockHand)
        IN  IF d.valid = TRUE /\ HasRefbit(d) THEN
                AllocLoop([st EXCEPT !.tbl[c].refbit = FALSE,
                                     !.clockHand = next,
                                     !.currClockHand = next,
                                     !.counter = @ + 1,
                                     !.inspections = @ + 1])
            ELSE IF d.valid = TRUE /\ IsPinned(d) THEN
                AllocLoop([st EXCEPT !.totalPinnedPages = @ + 1,
                                     !.clockHand = next,
                                     !.currClockHand = next,
                                     !.counter = @ + 1,
                                     !.inspections = @ + 1])
            ELSE
                LET sel == [st EXCEPT !.inspections = @ + 1,
                                      !.victim = d,
                                      !.foundFrame = st.clockHand,
                                      !.outcome = "found"]
                IN  IF d.valid = TRUE THEN Evict(sel) ELSE sel
    ELSE IF AllPinned(st.totalPinnedPages) THEN
        [st EXCEPT !.outcome = "BufferExceededException"]
    ELSE
        AllocLoop([st EXCEPT !.totalPinnedPages = 0, !.counter = 0, !.retries = @ + 1])

\* Lines 78-128: allocBuf on the given frame table, index, pool and hand.
allocBuf(tbl, ht, pool, hand) ==
    LET h == advanceClock(hand)
    IN  AllocLoop([tbl |-> tbl, ht |-> ht, pool |-> pool,
                   clockHand |-> h, currClockHand |-> h,
                   counter |-> 0, totalPinnedPages |-> 0,
                   inspections |-> 0, retries |-> 0,
                   outcome |-> "running", foundFrame |-> NullPage,
                   victim |-> Clear, missing |-> FALSE, events |-> <<>>])

\* What the last call's allocBuf did; "none" when the call ran no allocBuf.
NoSweep ==
    [outcome |-> "none", foundFrame |-> NullPage, victim |-> Clear,
     inspections |-> 0, retries |-> 0]

SweepOf(r) ==
    [outcome |-> r.outcome, foundFrame |-> r.foundFrame, victim |-> r.victim,
     inspections |-> r.inspections, retries |-> r.retries]

\* --------------------------------------------------------------------- calls
\* A finished call: the method, its arguments (for allocPage, pageNo is the
\* number returned), the exception it let out ("none": it returned) and the
\* frame it found or was given (NullPage: none).
Call(op, file, pageNo, dirty, raised, page) ==
    [op |-> op, file |-> file, pageNo |-> pageNo, dirty |-> dirty,
     raised |-> raised, page |-> page]

Init ==
    /\ bufDescTable = [f \in Frames |-> Clear]
    /\ bufPool = [f \in Frames |-> NoPage]
    /\ hashTable = {}
    /\ clockHand = NumBufs - 1
    /\ allocated = {k \in Keys : k[2] = 1}
    /\ last = Call("BufMgr", NoFile, NoPage, FALSE, "none", NullPage)
    /\ sweep = NoSweep
    /\ events = <<>>

\* ----------------------------------------------------------------- readPage
\* The hit pinning as a miss does: pinCnt set to 1.
HitDesc_Reset(d) == [d EXCEPT !.refbit = TRUE, !.pinCnt = 1]

\* Lines 145-146: the hit.
HitDesc(d) == [d EXCEPT !.refbit = TRUE, !.pinCnt = d.pinCnt + 1]

\* What a call that ran allocBuf raises out of it: nothing, the exception of
\* line 118, or the one hashTable->remove throws at line 111.
AllocRaised(r) ==
    IF r.outcome = "found"
    THEN (IF r.missing THEN "HashNotFoundException" ELSE "none")
    ELSE r.outcome

\* Lines 158-162: readPage catches BufferExceededException, prints and returns
\* with page = NULL.
ReadCaught(raised) == IF raised = "BufferExceededException" THEN "none" ELSE raised

\* Lines 139-166.  The page asked for exists in the file: what the page store
\* does with a number it never handed out is not the buffer manager's code.
readPage(file, pageNo) ==
    /\ <<file, pageNo>> \in allocated
    /\ IF HashFound(hashTable, file, pageNo) THEN
          LET frameNo == HashLookup(hashTable, file, pageNo) IN
          /\ bufDescTable[frameNo].pinCnt < MaxPinCnt
          /\ bufDescTable' = [bufDescTable EXCEPT ![frameNo] = HitDesc(@)]
          /\ last' = Call("readPage", file, pageNo, FALSE, "none", frameNo)
          /\ sweep' = NoSweep
          /\ events' = <<>>
          /\ UNCHANGED <<bufPool, hashTable, clockHand, allocated>>
       ELSE
          LET r == allocBuf(bufDescTable, hashTable, bufPool, clockHand)
              frameNo == r.foundFrame
          IN
          /\ sweep' = SweepOf(r)
          /\ clockHand' = r.clockHand
          /\ allocated' = allocated
          /\ IF AllocRaised(r) = "none" THEN
                /\ bufPool' = [bufPool EXCEPT ![frameNo] = pageNo]
                /\ hashTable' = HashInsert(r.ht, file, pageNo, frameNo)
                /\ bufDescTable' = [r.tbl EXCEPT ![frameNo] = Set(file, pageNo)]
                /\ events' = r.events \o <<Ev("read", file, pageNo, frameNo),
                                           Ev("insert", file, pageNo, frameNo)>>
                /\ last' = Call("readPage", file, pageNo, FALSE, "none", frameNo)
             ELSE
                /\ bufPool' = bufPool
                /\ hashTable' = r.ht
                /\ bufDescTable' = r.tbl
                /\ events' = r.events
                /\ last' = Call("readPage", file, pageNo, FALSE,
                                ReadCaught(AllocRaised(r)), NullPage)

\* ---------------------------------------------------------------- unPinPage
\* The check left out: the count is decremented below zero.
NotPinned_Unchecked(d) == FALSE

\* Line 187: the page is cached and nobody holds it.
NotPinned(d) == d.pinCnt = 0

\* dirty assigned from the argument instead of set by it.
UnpinDesc_Assign(d, dirty) == [d EXCEPT !.pinCnt = d.pinCnt - 1, !.dirty = dirty]

\* Lines 191-194: one pin less; dirty is set, never cleared.
UnpinDesc(d, dirty) ==
    [d EXCEPT !.pinCnt = d.pinCnt - 1,
              !.dirty = IF dirty = TRUE THEN TRUE ELSE d.dirty]

\* The exception of the failed lookup let out instead of caught.
UnpinMiss_Throws(file, pageNo, dirty) ==
    Call("unPinPage", file, pageNo, dirty, "HashNotFoundException", NullPage)

\* Lines 183-186: the lookup failed; the exception is caught and the call
\* returns.
UnpinMiss(file, pageNo, dirty) ==
    Call("unPinPage", file, pageNo, dirty, "none", NullPage)

unPinPage(file, pageNo, dirty) ==
    /\ sweep' = NoSweep
    /\ events' = <<>>
    /\ UNCHANGED <<bufPool, hashTable, clockHand, allocated>>
    /\ IF ~HashFound(hashTable, file, pageNo) THEN
          /\ bufDescTable' = bufDescTable
          /\ last' = UnpinMiss(file, pageNo, dirty)
       ELSE
          LET frameNo == HashLookup(hashTable, file, pageNo) IN
          IF NotPinned(bufDescTable[frameNo]) THEN
             /\ bufDescTable' = bufDescTable
             /\ last' = Call("unPinPage", file, pageNo, dirty,
                             "PageNotPinnedException", frameNo)
          ELSE
             /\ bufDescTable' = [bufDescTable EXCEPT ![frameNo] = UnpinDesc(@, dirty)]
             /\ last' = Call("unPinPage", file, pageNo, dirty, "none", frameNo)

\* ---------------------------------------------------------------- flushFile
\* The pin check left out: a pinned page is flushed like any other.
FlushPinned_Ignored(d) == FALSE

\* Line 217: a page of the file is still pinned.
FlushPinned(d) == d.pinCnt > 0

\* Every page of the file written and dropped, clean ones too.
FlushDirty_Always(d) == TRUE

\* Line 220: the page is written back and its frame cleared.
FlushDirty(d) == d.dirty = TRUE

\* Lines 210-227: the loop from frame i on; st carries the table, the index,
\* the events so far and the exception that ended the loop.
RECURSIVE FlushLoop(_, _, _)
FlushLoop(st, i, file) ==
    IF i = NumBufs THEN st
    ELSE
        LET d == st.tbl[i] IN
        IF d.file # file THEN FlushLoop(st, i + 1, file)
        ELSE IF d.valid = FALSE THEN
            [st EXCEPT !.raised = "BadBufferException", !.frameNo = i]
        ELSE IF FlushPinned(d) THEN
            [st EXCEPT !.raised = "PagePinnedException", !.frameNo = i]
        ELSE IF FlushDirty(d) THEN
            LET w == [st EXCEPT
                        !.tbl[i] = Clear,
                        !.ht = HashRemove(st.ht, file, d.pageNo),
                        !.events = st.events
                                   \o <<Ev("write", d.file, st.pool[i], i),
                                        Ev("clear", d.file, d.pageNo, i),
                                        Ev("remove", file, d.pageNo, i)>>]
            IN  IF HashFound(st.ht, file, d.pageNo)
                THEN FlushLoop(w, i + 1, file)
                ELSE [w EXCEPT !.raised = "HashNotFoundException", !.frameNo = i]
        ELSE FlushLoop(st, i + 1, file)

flushFile(file) ==
    LET r == FlushLoop([tbl |-> bufDescTable, ht |-> hashTable, pool |-> bufPool,
                        events |-> <<>>, raised |-> "none", frameNo |-> NullPage],
                       0, file)
    IN
    /\ bufDescTable' = r.tbl
    /\ hashTable' = r.ht
    /\ events' = r.events
    /\ sweep' = NoSweep
    /\ last' = Call("flushFile", file, NoPage, FALSE, r.raised, r.frameNo)
    /\ UNCHANGED <<bufPool, clockHand, allocated>>

\* ---------------------------------------------------------------- allocPage
\* The page allocated in the file before a frame is asked for: the page
\* exists even when allocBuf then throws.
allocPage_AllocFirst(file) ==
    \E pageNo \in PagesOf(file) :
       LET r == allocBuf(bufDescTable, hashTable, bufPool, clockHand)
           frameNo == r.foundFrame
       IN
       /\ <<file, pageNo>> \notin allocated
       /\ allocated' = allocated \cup {<<file, pageNo>>}
       /\ sweep' = SweepOf(r)
       /\ clockHand' = r.clockHand
       /\ IF AllocRaised(r) = "none" THEN
             /\ bufPool' = [bufPool EXCEPT ![frameNo] = pageNo]
             /\ hashTable' = HashInsert(r.ht, file, pageNo, frameNo)
             /\ bufDescTable' = [r.tbl EXCEPT ![frameNo] = Set(file, pageNo)]
             /\ events' = <<Ev("allocate", file, pageNo, NullPage)>> \o r.events
                           \o <<Ev("insert", file, pageNo, frameNo)>>
             /\ last' = Call("allocPage", file, pageNo, FALSE, "none", frameNo)
          ELSE
             /\ bufPool' = bufPool
             /\ hashTable' = r.ht
             /\ bufDescTable' = r.tbl
             /\ events' = <<Ev("allocate", file, pageNo, NullPage)>> \o r.events
             /\ last' = Call("allocPage", file, NoPage, FALSE, AllocRaised(r), NullPage)

\* Lines 238-248.  file->allocatePage() hands out a page number the file does
\* not use yet.
allocPage(file) ==
    LET r == allocBuf(bufDescTable, hashTable, bufPool, clockHand)
        frameNo == r.foundFrame
    IN
    /\ sweep' = SweepOf(r)
    /\ clockHand' = r.clockHand
    /\ IF AllocRaised(r) = "none" THEN
          \E pageNo \in PagesOf(file) :
             /\ <<file, pageNo>> \notin allocated
             /\ allocated' = allocated \cup {<<file, pageNo>>}
             /\ bufPool' = [bufPool EXCEPT ![frameNo] = pageNo]
             /\ IF HashFound(r.ht, file, pageNo) THEN
                   /\ hashTable' = r.ht
                   /\ bufDescTable' = r.tbl
                   /\ events' = r.events \o <<Ev("allocate", file, pageNo, frameNo)>>
                   /\ last' = Call("allocPage", file, pageNo, FALSE,
                                   "HashAlreadyPresentException", NullPage)
                ELSE
                   /\ hashTable' = HashInsert(r.ht, file, pageNo, frameNo)
                   /\ bufDescTable' = [r.tbl EXCEPT ![frameNo] = Set(file, pageNo)]
                   /\ events' = r.events \o <<Ev("allocate", file, pageNo, frameNo),
                                              Ev("insert", file, pageNo, frameNo)>>
                   /\ last' = Call("allocPage", file, pageNo, FALSE, "none", frameNo)
       ELSE
          /\ allocated' = allocated
          /\ bufPool' = bufPool
          /\ hashTable' = r.ht
          /\ bufDescTable' = r.tbl
          /\ events' = r.events
          /\ last' = Call("allocPage", file, NoPage, FALSE, AllocRaised(r), NullPage)

\* -------------------------------------------------------------- disposePage
\* The frame only marked invalid: it keeps its file, page and flags.
DisposeDesc_Invalidate(d) == [d EXCEPT !.valid = FALSE]

\* The frame left as it is.
DisposeDesc_Keep(d) == d

\* Line 269: the frame of the disposed page is cleared.
DisposeDesc(d) == Clear

\* disposePage refusing a pinned page, as flushFile does.
disposePage_Guarded(file, PageNo) ==
    /\ sweep' = NoSweep
    /\ UNCHANGED <<bufPool, clockHand>>
    /\ IF ~HashFound(hashTable, file, PageNo) THEN
          /\ events' = <<>>
          /\ last' = Call("disposePage", file, PageNo, FALSE, "none", NullPage)
          /\ UNCHANGED <<bufDescTable, hashTable, allocated>>
       ELSE
          LET frameNo == HashLookup(hashTable, file, PageNo) IN
          IF bufDescTable[frameNo].pinCnt > 0 THEN
             /\ events' = <<>>
             /\ last' = Call("disposePage", file, PageNo, FALSE,
                             "PagePinnedException", frameNo)
             /\ UNCHANGED <<bufDescTable, hashTable, allocated>>
          ELSE
             /\ hashTable' = HashRemove(hashTable, file, PageNo)
             /\ bufDescTable' = [bufDescTable EXCEPT ![frameNo] = Clear]
             /\ allocated' = allocated \ {<<file, PageNo>>}
             /\ events' = <<Ev("remove", file, PageNo, frameNo),
                            Ev("clear", file, PageNo, frameNo),
                            Ev("delete", file, PageNo, frameNo)>>
             /\ last' = Call("disposePage", file, PageNo, FALSE, "none", frameNo)

\* Lines 257-272.
disposePage(file, PageNo) ==
    /\ sweep' = NoSweep
    /\ UNCHANGED <<bufPool, clockHand>>
    /\ IF ~HashFound(hashTable, file, PageNo) THEN
          /\ events' = <<>>
          /\ last' = Call("disposePage", file, PageNo, FALSE, "none", NullPage)
          /\ UNCHANGED <<bufDescTable, hashTable, allocated>>
       ELSE
          LET frameNo == HashLookup(hashTable, file, PageNo) IN
          /\ hashTable' = HashRemove(hashTable, file, PageNo)
          /\ bufDescTable' = [bufDescTable EXCEPT
                                 ![frameNo] = DisposeDesc(bufDescTable[frameNo])]
          /\ allocated' = allocated \ {<<file, PageNo>>}
          /\ events' = <<Ev("remove", file, PageNo, frameNo),
                         Ev("clear", file, PageNo, frameNo),
                         Ev("delete", file, PageNo, frameNo)>>
          /\ last' = Call("disposePage", file, PageNo, FALSE, "none", frameNo)

\* ------------------------------------------------------------------ ~BufMgr
\* Line 54 without the dirty test.
DestroyWrites_Valid(d) == d.valid = TRUE

\* Line 54: the frames the destructor writes.
DestroyWrites(d) == d.valid = TRUE /\ d.dirty = TRUE

\* Lines 53-59: the writes of the loop from frame i on, in frame order.
RECURSIVE DestroyLoop(_)
DestroyLoop(i) ==
    IF i >= NumBufs THEN <<>>
    ELSE (IF DestroyWrites(bufDescTable[i])
          THEN <<Ev("write", bufDescTable[i].file, bufPool[i], i)>>
          ELSE <<>>) \o DestroyLoop(i + 1)

\* Lines 52-63.  The three arrays are freed at 60-62 and no member function
\* runs on the object afterwards; the variables keep the values the loop saw.
Destructor ==
    /\ events' = DestroyLoop(0)
    /\ last' = Call("~BufMgr", NoFile, NoPage, FALSE, "none", NullPage)
    /\ sweep' = NoSweep
    /\ UNCHANGED <<bufDescTable, bufPool, hashTable, clockHand, allocated>>

\* The object exists: constructed and not yet destroyed.
Alive == last.op # "~BufMgr"

Next ==
    \/ Alive /\ \E k \in Keys : readPage(k[1], k[2])
    \/ Alive /\ \E k \in Keys, dirty \in BOOLEAN : unPinPage(k[1], k[2], dirty)
    \/ Alive /\ \E file \in Files : flushFile(file)
    \/ Alive /\ \E file \in Files : allocPage(file)
    \/ Alive /\ \E k \in Keys : disposePage(k[1], k[2])
    \/ Alive /\ Destructor

Spec == Init /\ [][Next]_vars

\* =================================================================== claims
\* The write events of the last call.
Writes == SelectSeq(events, LAMBDA e : e.kind = "write")

\* The positions in evs of the events of the given kind on the given frame.
Positions(evs, kind, frameNo) ==
    {i \in 1..Len(evs) : evs[i].kind = kind /\ evs[i].frameNo = frameNo}

\* The last call ran allocBuf and allocBuf returned a frame.
Selected == sweep.outcome = "found"

\* C1 (pin safety): every frame allocBuf selects is, at the moment it is
\* selected, invalid, or valid with refbit false and pinCnt 0; a frame with
\* pinCnt > 0 is never the victim.
C1_VictimEligible ==
    Selected =>
        \/ sweep.victim.valid = FALSE
        \/ /\ sweep.victim.valid = TRUE
           /\ sweep.victim.refbit = FALSE
           /\ sweep.victim.pinCnt = 0

\* A valid frame was evicted while another frame was pinned twice.
C1_Witness ==
    /\ Selected
    /\ sweep.victim.valid = TRUE
    /\ \E f \in Frames : f # sweep.foundFrame /\ bufDescTable[f].pinCnt = MaxPinCnt

\* The index entries that map to frame f.
EntriesTo(f) == {e \in hashTable : e.frameNo = f}

\* C2 (index consistency): after every call, completed or failed, a frame is
\* valid exactly when the index holds exactly one entry mapping to it, and
\* that entry's key is the frame's (file, pageNo).
C2_IndexConsistent ==
    \A f \in Frames :
        bufDescTable[f].valid = TRUE
        <=> /\ Cardinality(EntriesTo(f)) = 1
            /\ \A e \in EntriesTo(f) :
                  e.file = bufDescTable[f].file /\ e.pageNo = bufDescTable[f].pageNo

\* A call failed on a pool that holds a valid frame and a frame that was used
\* and cleared.
C2_Witness ==
    /\ last.raised = "PagePinnedException"
    /\ \E f \in Frames : bufDescTable[f].valid = TRUE
    /\ \E f \in Frames : bufDescTable[f].valid = FALSE /\ bufPool[f] # NoPage

\* Frame f's part of C3 over one step: f was dirty and was written back by
\* the call (wasFlushed), or the call wrote nothing from f.
C3_FrameWrites(f, wasFlushed) ==
    LET d == bufDescTable[f]
        w == Positions(events', "write", f)
        c == Positions(events', "clear", f)
    IN  IF wasFlushed
        THEN /\ Cardinality(w) = 1
             /\ Cardinality(c) = 1
             /\ \A i \in w : /\ events'[i] = Ev("write", d.file, d.pageNo, f)
                             /\ events'[i].pageNo = bufPool[f]
                             /\ \A j \in c : i < j
             /\ bufDescTable'[f].dirty = FALSE
        ELSE w = {}

\* What C3 asks of one step.
C3_Step ==
    /\ (last'.op \in {"readPage", "allocPage"} /\ sweep'.outcome = "found") =>
          /\ \A f \in Frames :
                C3_FrameWrites(f, /\ f = sweep'.foundFrame
                                  /\ sweep'.victim.valid = TRUE
                                  /\ sweep'.victim.dirty = TRUE)
          /\ Len(SelectSeq(events', LAMBDA e : e.kind = "write")) <= 1
    /\ last'.op = "flushFile" =>
          \A f \in Frames :
              C3_FrameWrites(f, /\ bufDescTable[f].file = last'.file
                                /\ bufDescTable[f].valid = TRUE
                                /\ bufDescTable[f].dirty = TRUE
                                /\ (last'.raised = "none" \/ f < last'.page))

\* C3 (dirty durability): a dirty frame evicted by allocBuf or flushed by
\* flushFile is written to the page store exactly once, with the page its
\* slot holds, before it is cleared; a successful allocBuf writes nothing but
\* a dirty victim.
C3_DirtyWrittenOnce == [][C3_Step]_vars

\* A dirty victim was evicted.
C3_Witness ==
    /\ Selected
    /\ sweep.victim.dirty = TRUE
    /\ Len(Writes) = 1

\* Every frame is valid and pinned.
AllFramesPinned(tbl) == \A f \in Frames : tbl[f].valid = TRUE /\ tbl[f].pinCnt > 0

\* What C4 asks of one step that ran allocBuf.
C4_Step ==
    sweep'.outcome # "none" =>
        (sweep'.outcome = "BufferExceededException" <=> AllFramesPinned(bufDescTable))

\* C4 (exhaustion): allocBuf throws BufferExceededException exactly when, at
\* the call, every frame is valid with pinCnt > 0.
C4_ExhaustedIffAllPinned == [][C4_Step]_vars

\* allocBuf failed with the pool full of pinned pages and a further page asked
\* for.
C4_Witness ==
    /\ sweep.outcome = "BufferExceededException"
    /\ Cardinality(hashTable) = NumBufs
    /\ last.op = "readPage"
    /\ ~HashFound(hashTable, last.file, last.pageNo)

\* C5 (termination): allocBuf ends, after at most two laps of the pool: at
\* most 2 * NumBufs frames inspected and at most one retry.
C5_BoundedSweep ==
    /\ sweep.outcome \in {"none", "found", "BufferExceededException"}
    /\ sweep.inspections <= 2 * NumBufs
    /\ sweep.retries <= 1

\* allocBuf used both laps in full.
C5_Witness ==
    /\ sweep.inspections = 2 * NumBufs
    /\ sweep.retries = 1
    /\ Selected
\* C6 (propagation): a readPage that misses and finds the pool exhausted
\* lets BufferExceededException out to its caller; it does not return
\* normally with a null page.
C6_ExhaustionPropagated ==
    (last.op = "readPage" /\ sweep.outcome = "BufferExceededException") =>
        /\ last.raised = "BufferExceededException"
        /\ ~(last.raised = "none" /\ last.page = NullPage)

\* The state of the program apart from the record of the last call.
Core == <<bufDescTable, bufPool, hashTable, clockHand, allocated>>

\* The step is a call of op on a page that the index holds before the call.
OnCached(op) == last'.op = op /\ HashFound(hashTable, last'.file, last'.pageNo)

\* The frame of that page.
CachedFrame == HashLookup(hashTable, last'.file, last'.pageNo)

\* What C7 asks of one step.
C7_Step ==
    OnCached("readPage") =>
        /\ bufDescTable'[CachedFrame].pinCnt = bufDescTable[CachedFrame].pinCnt + 1
        /\ bufDescTable'[CachedFrame].refbit = TRUE
        /\ \A fld \in {"valid", "dirty", "file", "pageNo"} :
              bufDescTable'[CachedFrame][fld] = bufDescTable[CachedFrame][fld]
        /\ \A g \in Frames \ {CachedFrame} : bufDescTable'[g] = bufDescTable[g]
        /\ events' = <<>>
        /\ sweep'.outcome = "none"
        /\ UNCHANGED <<bufPool, hashTable, clockHand, allocated>>
        /\ last'.raised = "none"
        /\ last'.page = CachedFrame

\* C7 (hit): readPage of a cached page adds exactly 1 to the frame's pinCnt
\* and sets its refbit; it reads and writes no page, runs no allocBuf, leaves
\* the clock hand, the index and every other frame as they were.
C7_HitPinsOnce == [][C7_Step]_vars

\* A page pinned once was fetched again.
C7_Witness ==
    /\ last.op = "readPage"
    /\ sweep.outcome = "none"
    /\ last.page # NullPage
    /\ bufDescTable[last.page].pinCnt = 2

\* What C8 asks of one step.
C8_Step ==
    (OnCached("unPinPage") /\ bufDescTable[CachedFrame].pinCnt = 0) =>
        /\ last'.raised = "PageNotPinnedException"
        /\ UNCHANGED Core

\* No frame has a negative pin count.
C8_PinCntNonNegative == \A f \in Frames : bufDescTable[f].pinCnt >= 0

\* C8 (double unpin): unPinPage of a cached page whose pinCnt is 0 throws
\* PageNotPinnedException and changes nothing, dirty flag included; pinCnt is
\* never below 0.
C8_UnpinAtZeroFails == [][C8_Step]_vars /\ []C8_PinCntNonNegative

\* An unpinned clean page was unpinned again, as dirty.
C8_Witness ==
    /\ last.op = "unPinPage"
    /\ last.raised = "PageNotPinnedException"
    /\ last.dirty = TRUE
    /\ bufDescTable[last.page].valid = TRUE
    /\ bufDescTable[last.page].dirty = FALSE
    /\ bufDescTable[last.page].pinCnt = 0

\* What C9 asks of one step.
C9_Step ==
    (last'.op = "unPinPage" /\ ~HashFound(hashTable, last'.file, last'.pageNo)) =>
        /\ last'.raised = "none"
        /\ events' = <<>>
        /\ UNCHANGED Core

\* C9 (unpin of an uncached page): unPinPage of a page the index does not
\* hold raises nothing and leaves frame table, index, clock hand and page
\* store as they were.
C9_UnpinUncachedNoOp == [][C9_Step]_vars

\* A page that was cached and then evicted or disposed of was unpinned, while
\* other pages are cached.
C9_Witness ==
    /\ last.op = "unPinPage"
    /\ last.raised = "none"
    /\ last.page = NullPage
    /\ ~HashFound(hashTable, last.file, last.pageNo)
    /\ hashTable # {}
    /\ \E f \in Frames : bufPool[f] = last.pageNo /\ bufDescTable[f].pageNo # last.pageNo

\* What C10 asks of one step.
C10_Step ==
    /\ \A f \in Frames :
          (bufDescTable[f].dirty = TRUE /\ bufDescTable'[f].dirty = FALSE) =>
              \/ /\ last'.op \in {"readPage", "allocPage", "flushFile"}
                 /\ Positions(events', "write", f) # {}
                 /\ Positions(events', "clear", f) # {}
              \/ /\ last'.op = "disposePage"
                 /\ last'.page = f
    /\ (last'.op = "unPinPage" \/ OnCached("readPage")) =>
          \A f \in Frames : bufDescTable[f].dirty = TRUE => bufDescTable'[f].dirty = TRUE

\* C10 (dirty is monotonic): a set dirty flag is not cleared by a readPage
\* hit or by an unPinPage; it goes back to false only when the frame is
\* written back and cleared (allocBuf, flushFile) or discarded (disposePage).
C10_DirtyMonotonic == [][C10_Step]_vars

\* A dirty page was fetched again and unpinned as clean, and is still dirty.
C10_Witness ==
    /\ last.op = "unPinPage"
    /\ last.dirty = FALSE
    /\ last.raised = "none"
    /\ last.page # NullPage
    /\ bufDescTable[last.page].dirty = TRUE
\* The frames the file owns before the call.
OwnedBy(file) == {f \in Frames : bufDescTable[f].file = file}

\* The pinned frames the file owns before the call.
PinnedOf(file) == {f \in OwnedBy(file) : bufDescTable[f].pinCnt > 0}

\* The least frame number of a nonempty set of frames.
FirstOf(S) == CHOOSE f \in S : \A g \in S : f <= g

\* Frame f was written back by the step: one write of its slot to its page,
\* then Clear, then the entry's removal; the frame is free and out of the
\* index afterwards.
FlushedOut(f) ==
    LET d == bufDescTable[f]
        w == Positions(events', "write", f)
        c == Positions(events', "clear", f)
        r == Positions(events', "remove", f)
    IN  /\ Cardinality(w) = 1 /\ Cardinality(c) = 1 /\ Cardinality(r) = 1
        /\ \A i \in w, j \in c, k \in r :
              /\ i < j /\ j < k
              /\ events'[i] = Ev("write", d.file, bufPool[f], f)
              /\ events'[k] = Ev("remove", d.file, d.pageNo, f)
        /\ bufDescTable'[f] = Clear
        /\ ~HashFound(hashTable', d.file, d.pageNo)

\* Frame f was left alone by the step: same descriptor, same index entries,
\* no event.
Untouched(f) ==
    /\ bufDescTable'[f] = bufDescTable[f]
    /\ {e \in hashTable' : e.frameNo = f} = {e \in hashTable : e.frameNo = f}
    /\ \A i \in 1..Len(events') : events'[i].frameNo # f

\* What C11 asks of one step.
C11_Step ==
    (last'.op = "flushFile" /\ PinnedOf(last'.file) # {}) =>
        LET j == FirstOf(PinnedOf(last'.file)) IN
        /\ last'.raised = "PagePinnedException"
        /\ last'.page = j
        /\ \A f \in Frames :
              IF f < j /\ f \in OwnedBy(last'.file) /\ bufDescTable[f].dirty = TRUE
              THEN FlushedOut(f)
              ELSE Untouched(f)
        /\ UNCHANGED <<bufPool, clockHand, allocated>>

\* C11 (flush aborts at the first pinned frame): flushFile(f) throws
\* PagePinnedException at the lowest-numbered frame of f with pinCnt > 0;
\* dirty frames of f below it have been written, cleared and taken out of the
\* index and stay so; every frame from it on is untouched.
C11_FlushAbortsAtFirstPinned == [][C11_Step]_vars

\* A flush wrote back a dirty frame and then failed on a pinned one.
C11_Witness ==
    /\ last.op = "flushFile"
    /\ last.raised = "PagePinnedException"
    /\ Len(Writes) = 1
    /\ \A f \in Frames : f < last.page => bufDescTable[f] = Clear
    /\ bufDescTable[last.page].pinCnt > 0

\* What C12 asks of one step.
C12_Step ==
    (last'.op = "flushFile" /\ last'.raised = "none") =>
        /\ PinnedOf(last'.file) = {}
        /\ \A f \in Frames :
              IF f \in OwnedBy(last'.file) /\ bufDescTable[f].dirty = TRUE
              THEN FlushedOut(f)
              ELSE Untouched(f)
        /\ \A f \in Frames :
              bufDescTable'[f].file = last'.file => bufDescTable'[f].dirty = FALSE
        /\ UNCHANGED <<bufPool, clockHand, allocated>>

\* C12 (successful flush): after flushFile(f) returns, no frame of f is
\* dirty: each dirty frame of f was written once, taken out of the index and
\* cleared; clean frames of f stay resident with their entries; frames of
\* other files and the clock hand are as before.
C12_FlushCleansFile == [][C12_Step]_vars

\* A flush wrote back a dirty page of the file and left a clean page of the
\* same file resident.
C12_Witness ==
    /\ last.op = "flushFile"
    /\ last.raised = "none"
    /\ Len(Writes) = 1
    /\ \E f \in Frames : /\ bufDescTable[f].valid = TRUE
                         /\ bufDescTable[f].file = last.file
                         /\ HashFound(hashTable, last.file, bufDescTable[f].pageNo)
\* The positions in evs of the events of the given kind.
KindPositions(evs, kind) == {i \in 1..Len(evs) : evs[i].kind = kind}

\* C13 (dispose always deletes): every disposePage tells the page store to
\* delete the page, after the cache cleanup when the page is cached and
\* without it when it is not.
C13_DisposeAlwaysDeletes ==
    last.op = "disposePage" =>
        /\ KindPositions(events, "delete") # {}
        /\ \A i \in KindPositions(events, "delete") :
              /\ events[i].file = last.file
              /\ events[i].pageNo = last.pageNo
              /\ i = Len(events)
        /\ <<last.file, last.pageNo>> \notin allocated

\* C14 as claimed: allocPage's first call is file->allocatePage(), a frame is
\* acquired only afterwards.
C14_AllocateFirst ==
    last.op = "allocPage" =>
        /\ events # <<>>
        /\ events[1].kind = "allocate"

\* What the amended C14 asks of one step.
C14_Step ==
    last'.op = "allocPage" =>
        IF sweep'.outcome = "found"
        THEN LET n == Len(events')
                 frameNo == sweep'.foundFrame
             IN  /\ last'.raised = "none"
                 /\ n >= 2
                 /\ events'[n - 1] = Ev("allocate", last'.file, last'.pageNo, frameNo)
                 /\ events'[n] = Ev("insert", last'.file, last'.pageNo, frameNo)
                 /\ \A i \in 1..(n - 2) :
                       /\ events'[i].kind \in {"write", "clear", "remove"}
                       /\ events'[i].frameNo = frameNo
                 /\ <<last'.file, last'.pageNo>> \notin allocated
                 /\ allocated' = allocated \cup {<<last'.file, last'.pageNo>>}
                 /\ HashEntries(hashTable', last'.file, last'.pageNo)
                       = {[file |-> last'.file, pageNo |-> last'.pageNo,
                           frameNo |-> frameNo]}
                 /\ last'.page = frameNo
                 /\ bufDescTable'[frameNo].valid = TRUE
                 /\ bufDescTable'[frameNo].pinCnt = 1
                 /\ bufDescTable'[frameNo].refbit = TRUE
                 /\ bufDescTable'[frameNo].dirty = FALSE
                 /\ bufDescTable'[frameNo].file = last'.file
                 /\ bufDescTable'[frameNo].pageNo = last'.pageNo
        ELSE /\ last'.raised = "BufferExceededException"
             /\ events' = <<>>
             /\ allocated' = allocated

\* C14 (amended): allocPage acquires a frame through allocBuf first and asks
\* the page store for the new page only then, so that nothing is allocated
\* when allocBuf throws; on success the new page is in the index, mapped to
\* the acquired frame, which is valid with pinCnt 1, refbit set, dirty clear.
C14_FrameThenAllocate == [][C14_Step]_vars

\* allocPage evicted a dirty page and then allocated the new one.
C14_Witness ==
    /\ last.op = "allocPage"
    /\ last.raised = "none"
    /\ sweep.victim.dirty = TRUE
    /\ Len(events) = 5
    /\ events[1].kind = "write"
    /\ events[4].kind = "allocate"
\* What C15 asks of one step.
C15_Step ==
    last'.op = "~BufMgr" =>
        /\ \A i \in 1..Len(events') : events'[i].kind = "write"
        /\ \A f \in Frames :
              LET d == bufDescTable[f]
                  ws == Positions(events', "write", f)
              IN  IF d.valid = TRUE /\ d.dirty = TRUE
                  THEN /\ Cardinality(ws) = 1
                       /\ \A i \in ws :
                             events'[i] = Ev("write", d.file, bufPool[f], f)
                  ELSE ws = {}

\* C15 (destructor flush): the destructor writes every frame that is valid
\* and dirty at that moment to its own file exactly once, and writes no frame
\* that is invalid or clean.
C15_DestructorFlushesDirty == [][C15_Step]_vars

\* The pool was destroyed holding one dirty page and one clean page: one write.
C15_Witness ==
    /\ last.op = "~BufMgr"
    /\ Len(events) = 1
    /\ \E f, g \in Frames :
          /\ bufDescTable[f].valid = TRUE /\ bufDescTable[f].dirty = TRUE
          /\ bufDescTable[g].valid = TRUE /\ bufDescTable[g].dirty = FALSE
          /\ events[1] = Ev("write", bufDescTable[f].file, bufPool[f], f)
\* What C16 asks of one step.
C16_Step ==
    (last'.op \in {"readPage", "allocPage"}
        /\ sweep'.outcome = "BufferExceededException") =>
        /\ hashTable' = hashTable
        /\ bufPool' = bufPool
        /\ allocated' = allocated
        /\ events' = <<>>
        /\ \A f \in Frames :
              bufDescTable'[f] = [bufDescTable[f] EXCEPT !.refbit = FALSE]
        /\ clockHand' = (clockHand + 1) % NumBufs

\* C16 (state after exhaustion): when allocBuf throws BufferExceededException
\* inside readPage or allocPage, the index and every frame's file, pageNo,
\* valid, dirty and pinCnt are as before the call, no page was read, written
\* or allocated, every refbit is false and the clock hand is one position
\* (mod numBufs) past where it was.
C16_ExhaustionLeavesState == [][C16_Step]_vars

\* An allocPage and a readPage that ran out of frames while a refbit was set.
C16_Witness ==
    /\ last.op \in {"readPage", "allocPage"}
    /\ sweep.outcome = "BufferExceededException"
    /\ sweep.retries >= 1
    /\ \A f \in Frames : bufDescTable[f].refbit = FALSE /\ bufDescTable[f].pinCnt > 0
\* The frame under the hand at the k-th inspection (k = 0 is the first) of an
\* allocBuf that starts in this state.
ClockPos(k) == (clockHand + 1 + k) % NumBufs

\* That frame can be taken at the k-th inspection: it is invalid, or unpinned
\* and unreferenced, where a frame referenced before the call is unreferenced
\* only from the second lap on.
EligibleAt(k) ==
    LET d == bufDescTable[ClockPos(k)]
    IN  \/ d.valid = FALSE
        \/ d.pinCnt = 0 /\ (d.refbit = FALSE \/ k >= NumBufs)

\* What C17 asks of one step whose allocBuf returned a frame.
C17_Step ==
    sweep'.outcome = "found" =>
        \E k \in 0..(2 * NumBufs - 1) :
           LET frameNo == ClockPos(k)
               v == bufDescTable[frameNo]
               passed == {ClockPos(j) : j \in 0..(k - 1)}
           IN  /\ EligibleAt(k)
               /\ \A j \in 0..(k - 1) : ~EligibleAt(j)
               /\ sweep'.foundFrame = frameNo
               /\ sweep'.inspections = k + 1
               /\ sweep'.victim = [v EXCEPT !.refbit = FALSE]
               /\ clockHand' = frameNo
               /\ \A f \in Frames \ {frameNo} :
                     bufDescTable'[f] =
                        IF f \in passed
                        THEN [bufDescTable[f] EXCEPT !.refbit = FALSE]
                        ELSE bufDescTable[f]
               /\ bufDescTable'[frameNo] = Set(last'.file, last'.pageNo)
               /\ HashLookup(hashTable', last'.file, last'.pageNo) = frameNo
               /\ v.valid = TRUE =>
                     /\ ~HashFound(hashTable', v.file, v.pageNo)
                     /\ Positions(events', "remove", frameNo) # {}
                     /\ \A i \in Positions(events', "remove", frameNo) :
                           events'[i] = Ev("remove", v.file, v.pageNo, frameNo)
               /\ Cardinality(KindPositions(events', "write"))
                     = IF v.valid = TRUE /\ v.dirty = TRUE THEN 1 ELSE 0
               /\ \A i \in KindPositions(events', "write") :
                     events'[i] = Ev("write", v.file, bufPool[frameNo], frameNo)

\* C17 (clock order, second chance): allocBuf advances the hand one step and
\* inspects the frames in circular order; a valid frame met with refbit true
\* is not taken at that inspection, its refbit is cleared and the hand moves
\* on; the frame returned is the first one reached that is invalid or valid,
\* unreferenced and unpinned, and the hand is left on it.  With two frames,
\* after fetch P1, unpin dirty, fetch P2, unpin clean, the fetch of P3 evicts
\* P1 with one write, P1 leaves the index and P3 takes P1's frame.
C17_ClockSecondChance == [][C17_Step]_vars

\* A fetch met every frame referenced and unpinned, went round once and took
\* the frame just past the old hand, writing the dirty page it held.
C17_Witness ==
    /\ last.op = "readPage"
    /\ sweep.outcome = "found"
    /\ sweep.retries = 1
    /\ sweep.inspections = NumBufs + 1
    /\ sweep.victim.valid = TRUE
    /\ sweep.victim.dirty = TRUE
    /\ ~HashFound(hashTable, sweep.victim.file, sweep.victim.pageNo)
    /\ Len(Writes) = 1
    /\ bufDescTable[sweep.foundFrame].pageNo = last.pageNo
    /\ \A f \in Frames \ {sweep.foundFrame} :
          bufDescTable[f].valid = TRUE /\ bufDescTable[f].dirty = FALSE
          /\ bufDescTable[f].pinCnt = 0
\* What C18 asks of one step.
C18_Step ==
    OnCached("disposePage") =>
        /\ last'.raised = "none"
        /\ KindPositions(events', "write") = {}
        /\ bufDescTable'[CachedFrame].valid = FALSE
        /\ bufDescTable'[CachedFrame].pinCnt = 0
        /\ bufDescTable'[CachedFrame].dirty = FALSE
        /\ ~HashFound(hashTable', last'.file, last'.pageNo)
        /\ {e \in hashTable' : e.frameNo = CachedFrame} = {}
        /\ \A f \in Frames \ {CachedFrame} : bufDescTable'[f] = bufDescTable[f]
        /\ allocBuf(bufDescTable', hashTable', bufPool', clockHand').outcome = "found"

\* C18 (dispose is unconditional): disposePage of a cached page succeeds
\* whatever the frame's pinCnt and dirty flag are, raises no
\* PagePinnedException, writes nothing to the file even when the frame is
\* dirty, and leaves the frame free (valid false, pinCnt 0, dirty false) with
\* its index entry removed, so that the next allocBuf finds a frame.
C18_DisposeUnconditional == [][C18_Step]_vars

\* A cached page was disposed and its frame is free again.
C18_Witness ==
    /\ last.op = "disposePage"
    /\ last.page # NullPage
    /\ last.raised = "none"
    /\ bufDescTable[last.page] = Clear
    /\ KindPositions(events, "clear") # {}
    /\ \A f \in Frames \ {last.page} : bufDescTable[f].pinCnt > 0

\* C19 (invalid frames are clear): in every reachable state a frame that is
\* invalid has no file, pinCnt 0, dirty false and refbit false; hence
\* flushFile of a real file never throws BadBufferException.
C19_InvalidIsClear ==
    /\ \A f \in Frames :
          bufDescTable[f].valid = FALSE =>
             /\ bufDescTable[f].file = NoFile
             /\ bufDescTable[f].pinCnt = 0
             /\ bufDescTable[f].dirty = FALSE
             /\ bufDescTable[f].refbit = FALSE
    /\ last.raised # "BadBufferException"

\* flushFile ran over a pool holding a frame that had been used and freed.
C19_Witness ==
    /\ last.op = "flushFile"
    /\ last.raised = "none"
    /\ events = <<>>
    /\ \E f \in Frames : bufDescTable[f].valid = FALSE /\ bufPool[f] # NoPage

\* C20 (one frame per page): in every reachable state no two valid frames
\* hold the same (file, pageNo), and the index insert of readPage's miss and
\* of allocPage never throws HashAlreadyPresentException.
C20_OneFramePerPage ==
    /\ \A f, g \in Frames :
          (/\ f # g
           /\ bufDescTable[f].valid = TRUE
           /\ bufDescTable[g].valid = TRUE)
          => <<bufDescTable[f].file, bufDescTable[f].pageNo>>
                # <<bufDescTable[g].file, bufDescTable[g].pageNo>>
    /\ last.raised # "HashAlreadyPresentException"

\* allocPage was handed a page number that had been disposed of, and inserted
\* it while every other frame held a page.
C20_Witness ==
    /\ last.op = "allocPage"
    /\ last.raised = "none"
    /\ last.pageNo = 1
    /\ KindPositions(events, "insert") # {}
    /\ \A f \in Frames : bufDescTable[f].valid = TRUE

====
